---- MODULE Spec2Model ----
(***************************************************************************)
(* gaiax-credentials-cli (src/index.js): the two workflows of the command  *)
(* line tool, "credentials" (actionCredentials) and "vp" (actionVP), and   *)
(* the compliance client signCredentials, over a content store (the disk)  *)
(* that outlives each invocation.                                          *)
(*                                                                         *)
(* One invocation of the tool runs one command.  Every `await` of the      *)
(* source is two steps here: the call (the operation becomes outstanding)  *)
(* and its settlement (it resolves or rejects).                            *)
(***************************************************************************)
EXTENDS Naturals, Sequences, FiniteSets, TLC

\* ------------------------------------------------------------------ bounds

\* Invocations of the tool in one behaviour.
MaxRuns == 3
\* Distinct compliance credentials the endpoint may issue for one request.
MaxStamp == 2
\* Longest credential list handed to signCredentials when it is called directly.
MaxLen == 3

Stamps == 1..MaxStamp

\* -------------------------------------------------------------------- state

VARIABLES
  disk,       \* the content store: path -> file
  cmd,        \* the command of the current invocation: "credentials", "vp", "sign", "none"
  pc,         \* the statement the invocation is at: a step, "sign_return", "sign_catch",
              \* "done", "aborted" or "idle"
  pending,    \* the outstanding asynchronous operations
  local,      \* the local variables of actionVP and signCredentials
  thrown,     \* the error the invocation ended with
  runs,       \* invocations so far: the clock credentials are dated by
  \* What the invocation did, for stating the properties:
  posts,      \* the requests sent to the compliance endpoint
  answers,    \* what the endpoint answered, or the errors axios raised
  readLog,    \* the files read, with the value each gave
  trace,      \* the steps started and settled
  failedAt,   \* the step that failed
  runStart,   \* the disk when the invocation started
  \* What all invocations so far did:
  calls,      \* the builder calls that take arguments, each with its arguments
  produced    \* the credentials the builders persisted, each with its path

vars ==
  << disk, cmd, pc, pending, local, thrown, runs, posts, answers, readLog, trace,
     failedAt, runStart, calls, produced >>

\* ------------------------------------------------------- JavaScript values

\* JavaScript primitives, as records so that every value compares with every other.
Undefined == [primitive |-> "undefined"]
JSNull == [primitive |-> "null"]
JSFalse == [primitive |-> "false"]
JSEmptyString == [primitive |-> "''"]

\* The values `a && b` and `a || b` treat as false.
Falsy == {Undefined, JSNull, JSFalse, JSEmptyString}

Truthy(v) == v \notin Falsy

\* A Verifiable Credential document; issuanceDate stands for every field that
\* varies from one issuance to the next.
VC(type, stamp) == [type |-> type, issuanceDate |-> stamp]

\* ------------------------------------------------------------------ config

\* getConfig(): process-wide and read-only.
config ==
  [ urlAPICompliance |-> "https://compliance/api/credential-offers",
    openAPISpec |-> "openapi",
    baseUrl |-> "https://participant",
    webserverDir |-> "htdocs",
    didWebId |-> "did:web:participant",
    urlParticipant |-> "https://participant/participant.json",
    urlTermsConditions |-> "https://participant/tc.json",
    urlServiceOffering |-> "https://participant/so.json",
    pathParticipant |-> "htdocs/participant.json",
    pathLRN |-> "htdocs/lrn.json",
    pathTermsConditions |-> "htdocs/tc.json",
    pathServiceOffering |-> "htdocs/so.json",
    pathVerifiablePresentation |-> "htdocs/vp.json" ]

\* The resource names are functions of the OpenAPI spec's location alone.
getVirtualResourceName(openAPISpec) == "virtual-" \o openAPISpec

getInstantiatedVirtualResourceName(openAPISpec) == "instantiated-" \o openAPISpec

\* `${name}.json`
jsonFile(name) == name \o ".json"

\* path.join(dir, file)
pathJoin(dir, file) == dir \o "/" \o file

\* joinUrl(base, file)
joinUrl(base, file) == base \o "/" \o file

virtResourceName == getVirtualResourceName(config.openAPISpec)

instVirtResourceName == getInstantiatedVirtualResourceName(config.openAPISpec)

virtResourceUrl == joinUrl(config.baseUrl, jsonFile(virtResourceName))

instVirtResourceUrl == joinUrl(config.baseUrl, jsonFile(instVirtResourceName))

virtResourceWritePath == pathJoin(config.webserverDir, jsonFile(virtResourceName))

instVirtResourceWritePath == pathJoin(config.webserverDir, jsonFile(instVirtResourceName))

BasePaths ==
  <<config.pathParticipant, config.pathLRN, config.pathTermsConditions, config.pathServiceOffering>>

ResourcePaths == <<virtResourceWritePath, instVirtResourceWritePath>>

Range(s) == {s[i] : i \in DOMAIN s}

CredentialPaths == Range(BasePaths) \cup Range(ResourcePaths)

\* Every file the tool reads or writes.
Paths ==
  CredentialPaths
  \cup { config.pathVerifiablePresentation,
         pathJoin(config.webserverDir, jsonFile(getVirtualResourceName(config.openAPISpec))),
         pathJoin(config.webserverDir, jsonFile(getInstantiatedVirtualResourceName(config.openAPISpec))) }

\* ------------------------------------------------------- files and JSON text

\* A text is a serialised document, whole or cut short.
TruncatedText == [complete |-> FALSE, doc |-> Undefined]

\* AxiosError.prototype.toJSON: name, code and status; the response body is not part of it.
toJSON(v) ==
  IF "response" \in DOMAIN v
    THEN [name |-> v.name, code |-> v.code,
          status |-> IF Truthy(v.response) THEN v.response.status ELSE 0]
    ELSE IF "verifiableCredential" \in DOMAIN v
      THEN [v EXCEPT !.verifiableCredential =
              [i \in DOMAIN @ |-> IF @[i] = Undefined THEN JSNull ELSE @[i]]]
      ELSE v

\* JSON.stringify(v): an object with toJSON is serialised as what toJSON returns,
\* an undefined array element as null.
JSONstringify(v) == [complete |-> TRUE, doc |-> toJSON(v)]

\* A variant of JSONparse: the text is handed on as it was read, not parsed.
JSONparse_NoParse(text) == [ok |-> TRUE, value |-> text]

\* JSON.parse(text): the document, or a SyntaxError for a text cut short.
JSONparse(text) ==
  IF text.complete
    THEN [ok |-> TRUE, value |-> text.doc]
    ELSE [ok |-> FALSE, value |-> [name |-> "SyntaxError", message |-> "Unexpected end of JSON input"]]

NoFile == [exists |-> FALSE, text |-> TruncatedText]

FileOf(text) == [exists |-> TRUE, text |-> text]

\* The disk after `paths[1..n]` were written with `docs[1..n]`, and, with `cut`,
\* after the write of paths[n+1] was cut short.
WriteAll(d, paths, docs, n, cut) ==
  [p \in DOMAIN d |->
     IF \E i \in 1..n : paths[i] = p
       THEN FileOf(JSONstringify(docs[CHOOSE i \in 1..n : paths[i] = p]))
       ELSE IF cut /\ n < Len(paths) /\ paths[n + 1] = p
         THEN FileOf(TruncatedText)
         ELSE d[p]]

\* ------------------------------------------------------------ control flow

\* A variant of CredSteps: the Service Offering is built before the resources.
CredSteps_ServiceOfferingBeforeResources ==
  << "buildParticipantVC", "buildLegalRegistrationNumberVC", "buildTermsConditionsVC",
     "buildServiceOffering", "buildOpenAPIResources" >>

\* The awaited operations of actionCredentials, in statement order.
CredSteps ==
  << "buildParticipantVC", "buildLegalRegistrationNumberVC", "buildTermsConditionsVC",
     "buildOpenAPIResources", "buildServiceOffering" >>

\* A variant of VPSteps: the credentials are submitted before the resource files are read.
VPSteps_SignBeforeResourceReads ==
  << "readParticipant", "readLRN", "readTC", "readSO", "signCredentials",
     "readVR", "readIVR", "writeFile" >>

\* A variant of VPSteps: the presentation is assembled and written before the
\* credentials are submitted.
VPSteps_WriteBeforeSign ==
  << "readParticipant", "readLRN", "readTC", "readSO", "readVR", "readIVR",
     "writeFile", "signCredentials" >>

\* The awaited operations of actionVP, in statement order.
VPSteps ==
  << "readParticipant", "readLRN", "readTC", "readSO", "readVR", "readIVR",
     "signCredentials", "writeFile" >>

ReadSteps == {"readParticipant", "readLRN", "readTC", "readSO", "readVR", "readIVR"}

IndexOf(steps, s) == CHOOSE i \in DOMAIN steps : steps[i] = s

\* The statement after step s, "done" after the last.
After(steps, s) ==
  IF IndexOf(steps, s) = Len(steps) THEN "done" ELSE steps[IndexOf(steps, s) + 1]

\* A variant of AfterCall: the operation is not awaited, the next statement runs.
AfterCall_NotAwaited(steps, s) == After(steps, s)

\* `await`: the workflow stays at the statement until its operation settles.
AfterCall(steps, s) == s

\* A variant of OnSettled: a rejection is caught and the workflow goes on.
OnSettled_CatchAndContinue(steps, s, ok) == After(steps, s)

\* `await` with no try/catch around it: a resolved operation continues with the
\* next statement, a rejected one leaves the workflow with the error.
OnSettled(steps, s, ok) == IF ok THEN After(steps, s) ELSE "aborted"

\* A variant of signAfterPost: a failed request is sent again.
signAfterPost_Retry(ok) == IF ok THEN "sign_return" ELSE "signCredentials"

\* try { await axios.post(...) ... return } catch (err) { ... throw }
signAfterPost(ok) == IF ok THEN "sign_return" ELSE "sign_catch"

\* How a call ends: it returns `value`, or throws it.
Returns(v) == [throws |-> FALSE, value |-> v]

Throws(v) == [throws |-> TRUE, value |-> v]

\* An Error; `detail` is the interpolated part of its message.
Error(message, detail) == [name |-> "Error", message |-> message, detail |-> detail]

NoDetail == [complete |-> TRUE, doc |-> Undefined]

\* ----------------------------------------------------------------- builders

\* A variant of buildOpenAPIResourcesArgs: the write paths depend on the invocation.
buildOpenAPIResourcesArgs_PerRun ==
  [ openAPIUrl |-> config.openAPISpec,
    didIssuer |-> config.didWebId,
    participantUrl |-> config.urlParticipant,
    virtResourceUrl |-> virtResourceUrl,
    virtResourceWritePath |->
      IF runs % 2 = 0 THEN instVirtResourceWritePath ELSE virtResourceWritePath,
    instVirtResourceUrl |-> instVirtResourceUrl,
    instVirtResourceWritePath |->
      IF runs % 2 = 0 THEN virtResourceWritePath ELSE instVirtResourceWritePath ]

\* The arguments actionCredentials gives buildOpenAPIResources.
buildOpenAPIResourcesArgs ==
  [ openAPIUrl |-> config.openAPISpec,
    didIssuer |-> config.didWebId,
    participantUrl |-> config.urlParticipant,
    virtResourceUrl |-> virtResourceUrl,
    virtResourceWritePath |-> virtResourceWritePath,
    instVirtResourceUrl |-> instVirtResourceUrl,
    instVirtResourceWritePath |-> instVirtResourceWritePath ]

\* A variant of buildServiceOfferingArgs: both resources are aggregated.
buildServiceOfferingArgs_BothResources ==
  [ didIssuer |-> config.didWebId,
    legalParticipantUrl |-> config.urlParticipant,
    termsConditionsPath |-> config.pathTermsConditions,
    termsConditionsUrl |-> config.urlTermsConditions,
    serviceOfferingUrl |-> config.urlServiceOffering,
    serviceOfferingWritePath |-> config.pathServiceOffering,
    aggregatedResourceUrls |-> <<virtResourceUrl, instVirtResourceUrl>> ]

\* The arguments actionCredentials gives buildServiceOffering.
buildServiceOfferingArgs ==
  [ didIssuer |-> config.didWebId,
    legalParticipantUrl |-> config.urlParticipant,
    termsConditionsPath |-> config.pathTermsConditions,
    termsConditionsUrl |-> config.urlTermsConditions,
    serviceOfferingUrl |-> config.urlServiceOffering,
    serviceOfferingWritePath |-> config.pathServiceOffering,
    aggregatedResourceUrls |-> <<virtResourceUrl>> ]

\* The builders actionCredentials calls with arguments.
BuilderArgs ==
  [ s \in {"buildOpenAPIResources", "buildServiceOffering"} |->
      IF s = "buildOpenAPIResources" THEN buildOpenAPIResourcesArgs ELSE buildServiceOfferingArgs ]

\* The Service Offering credential; aggregationOf is its aggregated-resource claim.
ServiceOfferingVC(stamp, urls) ==
  [type |-> "ServiceOffering", issuanceDate |-> stamp, aggregationOf |-> urls]

\* The list without the elements that repeat an earlier one.
RECURSIVE Distinct(_)
Distinct(urls) ==
  IF urls = <<>> THEN <<>>
  ELSE LET front == Distinct(SubSeq(urls, 1, Len(urls) - 1))
       IN  IF urls[Len(urls)] \in Range(front) THEN front ELSE Append(front, urls[Len(urls)])

\* A variant of buildServiceOffering: a URL given twice is aggregated once.
buildServiceOffering_Deduplicated(args, stamp) ==
  IF args.aggregatedResourceUrls = <<>>
    THEN Throws(Error("MissingResourceReference", NoDetail))
    ELSE Returns(ServiceOfferingVC(stamp, Distinct(args.aggregatedResourceUrls)))

\* buildServiceOffering(args): the Service Offering credential aggregating the
\* resource URLs given, as given; MissingResourceReference when there are none.
buildServiceOffering(args, stamp) ==
  IF args.aggregatedResourceUrls = <<>>
    THEN Throws(Error("MissingResourceReference", NoDetail))
    ELSE Returns(ServiceOfferingVC(stamp, args.aggregatedResourceUrls))

\* The credentials docs[1..n], each with the path it was persisted at.
Persisted(paths, docs, n) == {[path |-> paths[i], doc |-> docs[i]] : i \in 1..n}

\* The files a builder persists, in the order it writes them.
BuilderPaths(s) ==
  CASE s = "buildParticipantVC" -> <<config.pathParticipant>>
    [] s = "buildLegalRegistrationNumberVC" -> <<config.pathLRN>>
    [] s = "buildTermsConditionsVC" -> <<config.pathTermsConditions>>
    [] s = "buildOpenAPIResources" ->
         << buildOpenAPIResourcesArgs.virtResourceWritePath,
            buildOpenAPIResourcesArgs.instVirtResourceWritePath >>
    [] s = "buildServiceOffering" -> <<buildServiceOfferingArgs.serviceOfferingWritePath>>

\* The credentials a builder produces, one per file.
BuilderDocs(s, stamp) ==
  CASE s = "buildParticipantVC" -> <<VC("Participant", stamp)>>
    [] s = "buildLegalRegistrationNumberVC" -> <<VC("LegalRegistrationNumber", stamp)>>
    [] s = "buildTermsConditionsVC" -> <<VC("TermsConditions", stamp)>>
    [] s = "buildOpenAPIResources" ->
         <<VC("VirtualResource", stamp), VC("InstantiatedVirtualResource", stamp)>>
    [] s = "buildServiceOffering" -> <<buildServiceOffering(buildServiceOfferingArgs, stamp).value>>

\* -------------------------------------------------- presentation and signing

\* buildVerifiablePresentation({ verifiableCredentials }): the envelope around the
\* credentials, in the order given.
buildVerifiablePresentation(verifiableCredentials) ==
  [ type |-> "VerifiablePresentation", verifiableCredential |-> verifiableCredentials ]

\* A variant of baseCredentials: the resource credentials are submitted too.
baseCredentials_WithResources(l) ==
  <<l.vcParticipant, l.vcLRN, l.vcTC, l.vcSO, l.vcVR, l.vcIVR>>

\* actionVP: const verifiableCredentials = [vcParticipant, vcLRN, vcTC, vcSO]
baseCredentials(l) == <<l.vcParticipant, l.vcLRN, l.vcTC, l.vcSO>>

\* A variant of finalCredentials: the two resource credentials change places.
finalCredentials_ResourcesSwapped(l) ==
  l.verifiableCredentials \o <<l.vcCompliance, l.vcIVR, l.vcVR>>

\* actionVP: [...verifiableCredentials, vcCompliance, vcVR, vcIVR]
finalCredentials(l) == l.verifiableCredentials \o <<l.vcCompliance, l.vcVR, l.vcIVR>>

\* A variant of signRequest: the credentials are sent in reverse order.
signRequest_Reversed(verifiableCredentials) ==
  [ url |-> config.urlAPICompliance,
    body |-> buildVerifiablePresentation(
               [i \in DOMAIN verifiableCredentials |->
                  verifiableCredentials[Len(verifiableCredentials) + 1 - i]]) ]

\* signCredentials: the request it sends.
signRequest(verifiableCredentials) ==
  [ url |-> config.urlAPICompliance,
    body |-> buildVerifiablePresentation(verifiableCredentials) ]

\* A variant of signReturn: the whole response is returned, not its body.
signReturn_WholeResponse(res) == Returns(res)

\* signCredentials: return res.data
signReturn(res) == Returns(res.data)

\* signCredentials: const errMsg = (err.response && err.response.data) || err
errMsg(err) ==
  IF Truthy(err.response)
    THEN (IF Truthy(err.response.data) THEN err.response.data ELSE err)
    ELSE err

\* A variant of signCatch: the catch block hands the error payload back as the result.
signCatch_ReturnsErrMsg(err) == Returns(errMsg(err))

\* signCredentials: throw new Error(`Error in Compliance API request: ${JSON.stringify(errMsg)}`)
signCatch(err) ==
  Throws(Error("Error in Compliance API request: ", JSONstringify(errMsg(err))))

\* What the compliance endpoint may answer: a signed compliance credential ...
ComplianceResponses == {[status |-> 201, data |-> VC("Compliance", n)] : n \in Stamps}

\* ... or a non-success response, with an error payload, an empty body or the JSON
\* body `false`.
ErrorBodies == {[error |-> "invalid"], JSEmptyString, JSFalse}

\* axios rejects with the response when there is one, and without when the
\* request never got an answer.
AxiosErrors ==
  {[name |-> "AxiosError", code |-> "ERR_BAD_REQUEST", response |-> [status |-> 400, data |-> d]] :
     d \in ErrorBodies}
  \cup {[name |-> "AxiosError", code |-> "ECONNREFUSED", response |-> Undefined]}

\* ------------------------------------------------------------- initial state

NoLocals ==
  [ vcParticipant |-> Undefined, vcLRN |-> Undefined, vcTC |-> Undefined,
    vcSO |-> Undefined, vcVR |-> Undefined, vcIVR |-> Undefined,
    verifiableCredentials |-> <<>>, res |-> Undefined, err |-> Undefined,
    vcCompliance |-> Undefined, vpResult |-> Undefined ]

Halted == {"idle", "done", "aborted"}

Init ==
  /\ disk = [p \in Paths |-> NoFile]
  /\ cmd = "none"
  /\ pc = "idle"
  /\ pending = {}
  /\ local = NoLocals
  /\ thrown = Undefined
  /\ runs = 0
  /\ posts = <<>>
  /\ answers = <<>>
  /\ readLog = <<>>
  /\ trace = <<>>
  /\ failedAt = "none"
  /\ runStart = [p \in Paths |-> NoFile]
  /\ calls = {}
  /\ produced = {}

Event(ev, s) == [ev |-> ev, step |-> s]

\* program.command("credentials") / program.command("vp"): one command per invocation.
Invoke(c) ==
  /\ pc \in Halted
  /\ runs < MaxRuns
  /\ cmd' = c
  /\ pc' = IF c = "credentials" THEN CredSteps[1] ELSE VPSteps[1]
  /\ runs' = runs + 1
  /\ local' = NoLocals
  /\ thrown' = Undefined
  /\ posts' = <<>>
  /\ answers' = <<>>
  /\ readLog' = <<>>
  /\ trace' = <<>>
  /\ failedAt' = "none"
  /\ runStart' = disk
  /\ UNCHANGED <<disk, pending, calls, produced>>

\* The workflow leaves with the error of step s.
Fail(s, error) ==
  /\ thrown' = error
  /\ failedAt' = s

\* ------------------------------------------------------- actionCredentials

\* `await build...()`: the builder is called.
BuilderCall ==
  /\ cmd = "credentials"
  /\ pc \in Range(CredSteps)
  /\ pc \notin pending
  /\ pending' = pending \cup {pc}
  /\ trace' = Append(trace, Event("start", pc))
  /\ pc' = AfterCall(CredSteps, pc)
  /\ calls' = IF pc \in DOMAIN BuilderArgs
                THEN calls \cup {[fn |-> pc, args |-> BuilderArgs[pc]]}
                ELSE calls
  /\ UNCHANGED <<disk, cmd, local, thrown, runs, posts, answers, readLog, failedAt, runStart, produced>>

\* The builder resolves: its credentials, issued in this invocation, are on disk.
BuilderResolve ==
  /\ cmd = "credentials"
  /\ pc \in pending
  /\ disk' = WriteAll(disk, BuilderPaths(pc), BuilderDocs(pc, runs), Len(BuilderPaths(pc)), FALSE)
  /\ pending' = pending \ {pc}
  /\ trace' = Append(trace, Event("ok", pc))
  /\ pc' = OnSettled(CredSteps, pc, TRUE)
  /\ produced' = produced \cup Persisted(BuilderPaths(pc), BuilderDocs(pc, runs), Len(BuilderPaths(pc)))
  /\ UNCHANGED <<cmd, local, thrown, runs, posts, answers, readLog, failedAt, runStart, calls>>

\* The builder rejects, having written some of its files, the last perhaps in part.
BuilderReject ==
  /\ cmd = "credentials"
  /\ pc \in pending
  /\ \E n \in 0..(Len(BuilderPaths(pc)) - 1), cut \in BOOLEAN :
       /\ disk' = WriteAll(disk, BuilderPaths(pc), BuilderDocs(pc, runs), n, cut)
       /\ produced' = produced \cup Persisted(BuilderPaths(pc), BuilderDocs(pc, runs), n)
  /\ pending' = pending \ {pc}
  /\ trace' = Append(trace, Event("fail", pc))
  /\ pc' = OnSettled(CredSteps, pc, FALSE)
  /\ IF pc' = "aborted"
       THEN Fail(pc, Error(pc, NoDetail))
       ELSE UNCHANGED <<thrown, failedAt>>
  /\ UNCHANGED <<cmd, local, runs, posts, answers, readLog, runStart, calls>>

\* ---------------------------------------------------------------- actionVP

\* A variant of vpVirtResourceWritePath: the path is derived from the other name.
vpVirtResourceWritePath_OtherName ==
  pathJoin(config.webserverDir, jsonFile(getInstantiatedVirtualResourceName(config.openAPISpec)))

\* actionVP derives the resource paths again, from the config alone.
vpVirtResourceWritePath ==
  pathJoin(config.webserverDir, jsonFile(getVirtualResourceName(config.openAPISpec)))

vpInstVirtResourceWritePath ==
  pathJoin(config.webserverDir, jsonFile(getInstantiatedVirtualResourceName(config.openAPISpec)))

\* The file each read step reads.
ReadPath(s) ==
  CASE s = "readParticipant" -> config.pathParticipant
    [] s = "readLRN" -> config.pathLRN
    [] s = "readTC" -> config.pathTermsConditions
    [] s = "readSO" -> config.pathServiceOffering
    [] s = "readVR" -> vpVirtResourceWritePath
    [] s = "readIVR" -> vpInstVirtResourceWritePath

\* The local variable each read step assigns.
ReadVar(s) ==
  CASE s = "readParticipant" -> "vcParticipant"
    [] s = "readLRN" -> "vcLRN"
    [] s = "readTC" -> "vcTC"
    [] s = "readSO" -> "vcSO"
    [] s = "readVR" -> "vcVR"
    [] s = "readIVR" -> "vcIVR"

\* Why JSON.parse(await fs.readFile(path, 'utf-8')) may fail on file f.
ReadErrors(f) ==
  IF ~f.exists THEN {"ENOENT"}
  ELSE IF ~JSONparse(f.text).ok THEN {"EIO", "SyntaxError"}
  ELSE {"EIO"}

\* `await fs.readFile(...)`: the read is issued.
ReadCall ==
  /\ cmd = "vp"
  /\ pc \in ReadSteps
  /\ pc \notin pending
  /\ pending' = pending \cup {pc}
  /\ trace' = Append(trace, Event("start", pc))
  /\ pc' = AfterCall(VPSteps, pc)
  /\ UNCHANGED <<disk, cmd, local, thrown, runs, posts, answers, readLog, failedAt, runStart, calls, produced>>

\* The read resolves and its text parses.
ReadResolve ==
  /\ cmd = "vp"
  /\ pc \in ReadSteps
  /\ pc \in pending
  /\ disk[ReadPath(pc)].exists
  /\ JSONparse(disk[ReadPath(pc)].text).ok
  /\ local' = [local EXCEPT ![ReadVar(pc)] = JSONparse(disk[ReadPath(pc)].text).value]
  /\ readLog' = Append(readLog, [path |-> ReadPath(pc), value |-> JSONparse(disk[ReadPath(pc)].text).value])
  /\ pending' = pending \ {pc}
  /\ trace' = Append(trace, Event("ok", pc))
  /\ pc' = OnSettled(VPSteps, pc, TRUE)
  /\ UNCHANGED <<disk, cmd, thrown, runs, posts, answers, failedAt, runStart, calls, produced>>

\* The read rejects, or its text does not parse.
ReadReject ==
  /\ cmd = "vp"
  /\ pc \in ReadSteps
  /\ pc \in pending
  /\ pending' = pending \ {pc}
  /\ trace' = Append(trace, Event("fail", pc))
  /\ pc' = OnSettled(VPSteps, pc, FALSE)
  /\ \E e \in ReadErrors(disk[ReadPath(pc)]) :
       IF pc' = "aborted"
         THEN Fail(pc, Error(e, NoDetail))
         ELSE UNCHANGED <<thrown, failedAt>>
  /\ UNCHANGED <<disk, cmd, local, runs, posts, answers, readLog, runStart, calls, produced>>

\* ---------------------------------------------------------- signCredentials

\* signCredentials up to `await axios.post(...)`: the presentation is built and sent.
SignPost ==
  /\ cmd \in {"vp", "sign"}
  /\ pc = "signCredentials"
  /\ "axios.post" \notin pending
  /\ local' = [local EXCEPT !.verifiableCredentials = IF cmd = "vp" THEN baseCredentials(local) ELSE @]
  /\ posts' = Append(posts, signRequest(local'.verifiableCredentials))
  /\ pending' = pending \cup {"axios.post"}
  /\ trace' = Append(trace, Event("start", pc))
  /\ UNCHANGED <<disk, cmd, pc, thrown, runs, answers, readLog, failedAt, runStart, calls, produced>>

\* The endpoint answers with a compliance credential.
PostResolve ==
  /\ pc = "signCredentials"
  /\ "axios.post" \in pending
  /\ \E res \in ComplianceResponses :
       /\ local' = [local EXCEPT !.res = res]
       /\ answers' = Append(answers, res)
  /\ pending' = pending \ {"axios.post"}
  /\ pc' = signAfterPost(TRUE)
  /\ UNCHANGED <<disk, cmd, thrown, runs, posts, readLog, trace, failedAt, runStart, calls, produced>>

\* The request fails: a non-success response, or no response at all.
PostReject ==
  /\ pc = "signCredentials"
  /\ "axios.post" \in pending
  /\ \E err \in AxiosErrors :
       /\ local' = [local EXCEPT !.err = err]
       /\ answers' = Append(answers, err)
  /\ pending' = pending \ {"axios.post"}
  /\ pc' = signAfterPost(FALSE)
  /\ UNCHANGED <<disk, cmd, thrown, runs, posts, readLog, trace, failedAt, runStart, calls, produced>>

\* signCredentials ends as `c`: its caller goes on with the value returned, or
\* leaves with the error thrown.
Complete(c) ==
  /\ pc' = IF cmd = "vp" THEN OnSettled(VPSteps, "signCredentials", ~c.throws)
            ELSE IF c.throws THEN "aborted" ELSE "done"
  /\ trace' = Append(trace, Event(IF c.throws THEN "fail" ELSE "ok", "signCredentials"))
  /\ IF c.throws
       THEN /\ IF pc' = "aborted"
                 THEN Fail("signCredentials", c.value)
                 ELSE UNCHANGED <<thrown, failedAt>>
            /\ UNCHANGED local
       ELSE /\ local' = [local EXCEPT !.vcCompliance = c.value]
            /\ UNCHANGED <<thrown, failedAt>>
  /\ UNCHANGED <<disk, cmd, pending, runs, posts, answers, readLog, runStart, calls, produced>>

\* try block, after the await: return res.data
SignReturn ==
  /\ pc = "sign_return"
  /\ Complete(signReturn(local.res))

\* catch (err) block
SignCatch ==
  /\ pc = "sign_catch"
  /\ Complete(signCatch(local.err))

\* ------------------------------------------------------- actionVP, the end

\* A variant of vpWritePaths: the presentation overwrites the Service Offering.
vpWritePaths_ServiceOffering == <<config.pathServiceOffering>>

\* actionVP: await writeFile(config.pathVerifiablePresentation, vpResult)
vpWritePaths == <<config.pathVerifiablePresentation>>

\* The final presentation is built and `await writeFile(...)` is issued.
WriteCall ==
  /\ cmd = "vp"
  /\ pc = "writeFile"
  /\ pc \notin pending
  /\ local' = [local EXCEPT !.vpResult = buildVerifiablePresentation(finalCredentials(local))]
  /\ pending' = pending \cup {pc}
  /\ trace' = Append(trace, Event("start", pc))
  /\ pc' = AfterCall(VPSteps, pc)
  /\ UNCHANGED <<disk, cmd, thrown, runs, posts, answers, readLog, failedAt, runStart, calls, produced>>

\* writeFile resolves: the presentation is on disk.
WriteResolve ==
  /\ cmd = "vp"
  /\ pc = "writeFile"
  /\ pc \in pending
  /\ disk' = WriteAll(disk, vpWritePaths, <<local.vpResult>>, 1, FALSE)
  /\ pending' = pending \ {pc}
  /\ trace' = Append(trace, Event("ok", pc))
  /\ pc' = OnSettled(VPSteps, pc, TRUE)
  /\ UNCHANGED <<cmd, local, thrown, runs, posts, answers, readLog, failedAt, runStart, calls, produced>>

\* writeFile rejects, the file untouched or cut short.
WriteReject ==
  /\ cmd = "vp"
  /\ pc = "writeFile"
  /\ pc \in pending
  /\ \E cut \in BOOLEAN :
       disk' = WriteAll(disk, vpWritePaths, <<local.vpResult>>, 0, cut)
  /\ pending' = pending \ {pc}
  /\ trace' = Append(trace, Event("fail", pc))
  /\ pc' = OnSettled(VPSteps, pc, FALSE)
  /\ IF pc' = "aborted"
       THEN Fail(pc, Error("WriteFailed", NoDetail))
       ELSE UNCHANGED <<thrown, failedAt>>
  /\ UNCHANGED <<cmd, local, runs, posts, answers, readLog, runStart, calls, produced>>

\* ------------------------------------------------------------ specifications

Next ==
  \/ \E c \in {"credentials", "vp"} : Invoke(c)
  \/ BuilderCall
  \/ BuilderResolve
  \/ BuilderReject
  \/ ReadCall
  \/ ReadResolve
  \/ ReadReject
  \/ SignPost
  \/ PostResolve
  \/ PostReject
  \/ SignReturn
  \/ SignCatch
  \/ WriteCall
  \/ WriteResolve
  \/ WriteReject

Spec == Init /\ [][Next]_vars

\* A step of the invocation under way: a call, a settlement, or a statement after one.
Step ==
  \/ BuilderCall
  \/ BuilderResolve
  \/ BuilderReject
  \/ ReadCall
  \/ ReadResolve
  \/ ReadReject
  \/ SignPost
  \/ PostResolve
  \/ PostReject
  \/ SignReturn
  \/ SignCatch
  \/ WriteCall
  \/ WriteResolve
  \/ WriteReject

\* Every external operation eventually resolves or rejects, and the event loop runs
\* the statements that follow it.
FairSpec == Spec /\ WF_vars(Step)

\* signCredentials called on its own, with any list of credentials.
InputVCs == {VC("Participant", 1), VC("LegalRegistrationNumber", 1), VC("VirtualResource", 1)}

Lists == UNION {[1..n -> InputVCs] : n \in 0..MaxLen}

InitSign ==
  /\ disk = [p \in Paths |-> NoFile]
  /\ cmd = "sign"
  /\ pc = "signCredentials"
  /\ pending = {}
  /\ \E vcs \in Lists : local = [NoLocals EXCEPT !.verifiableCredentials = vcs]
  /\ thrown = Undefined
  /\ runs = 1
  /\ posts = <<>>
  /\ answers = <<>>
  /\ readLog = <<>>
  /\ trace = <<>>
  /\ failedAt = "none"
  /\ runStart = [p \in Paths |-> NoFile]
  /\ calls = {}
  /\ produced = {}

NextSign ==
  \/ SignPost
  \/ PostResolve
  \/ PostReject
  \/ SignReturn
  \/ SignCatch

SpecSign == InitSign /\ [][NextSign]_vars

\* buildServiceOffering called on its own, with any list of resource URLs.
InputUrls ==
  {virtResourceUrl, instVirtResourceUrl, config.urlParticipant, config.urlTermsConditions}

UrlLists == UNION {[1..n -> InputUrls] : n \in 0..MaxLen}

InitOffering ==
  /\ disk = [p \in Paths |-> NoFile]
  /\ cmd = "offering"
  /\ pc = "buildServiceOffering"
  /\ pending = {"buildServiceOffering"}
  /\ local = NoLocals
  /\ thrown = Undefined
  /\ runs = 1
  /\ posts = <<>>
  /\ answers = <<>>
  /\ readLog = <<>>
  /\ trace = <<Event("start", "buildServiceOffering")>>
  /\ failedAt = "none"
  /\ runStart = [p \in Paths |-> NoFile]
  /\ \E urls \in UrlLists :
       calls = {[ fn |-> "buildServiceOffering",
                  args |-> [buildServiceOfferingArgs EXCEPT !.aggregatedResourceUrls = urls] ]}
  /\ produced = {}

\* buildServiceOffering returns: the credential is persisted at the write path given.
OfferingReturn ==
  /\ cmd = "offering"
  /\ pc \in pending
  /\ \E c \in calls :
       LET r == buildServiceOffering(c.args, runs)
       IN  /\ ~r.throws
           /\ disk' = WriteAll(disk, <<c.args.serviceOfferingWritePath>>, <<r.value>>, 1, FALSE)
           /\ produced' = produced \cup Persisted(<<c.args.serviceOfferingWritePath>>, <<r.value>>, 1)
  /\ pending' = pending \ {pc}
  /\ trace' = Append(trace, Event("ok", pc))
  /\ pc' = "done"
  /\ UNCHANGED <<cmd, local, thrown, runs, posts, answers, readLog, failedAt, runStart, calls>>

\* buildServiceOffering throws: nothing is persisted.
OfferingThrow ==
  /\ cmd = "offering"
  /\ pc \in pending
  /\ \E c \in calls :
       LET r == buildServiceOffering(c.args, runs)
       IN  /\ r.throws
           /\ Fail(pc, r.value)
  /\ pending' = pending \ {pc}
  /\ trace' = Append(trace, Event("fail", pc))
  /\ pc' = "aborted"
  /\ UNCHANGED <<disk, cmd, local, runs, posts, answers, readLog, runStart, calls, produced>>

NextOffering ==
  \/ OfferingReturn
  \/ OfferingThrow

SpecOffering == InitOffering /\ [][NextOffering]_vars

\* ------------------------------------------------------------------ properties

Happened(ev, s) == \E i \in DOMAIN trace : trace[i] = Event(ev, s)

\* The present-and-sign workflow has written the final presentation.
VPWritten == cmd = "vp" /\ Happened("ok", "writeFile")

\* The credentials of the presentation now at the configured VP path.
PersistedCredentials ==
  JSONparse(disk[config.pathVerifiablePresentation].text).value.verifiableCredential

\* The request to the compliance endpoint failed in this run of the workflow.
ComplianceFailed ==
  cmd = "vp" /\ \E i \in DOMAIN answers : "response" \in DOMAIN answers[i]

\* A read of the present-and-sign workflow failed in this run.
ReadFailed == cmd = "vp" /\ \E s \in ReadSteps : Happened("fail", s)

\* C1: whenever actionVP has written the final VP, the persisted verifiableCredential
\* sequence has length 7 and is [Participant, LRN, Terms&Conditions, ServiceOffering,
\* ComplianceVC, VirtualResourceVC, InstantiatedResourceVC]: the first four and the last
\* two are the values this run read from the six credential files, in that order, and
\* the fifth is the value signCredentials returned in this run.
C1_FinalAssemblyShape ==
  VPWritten =>
    /\ disk[config.pathVerifiablePresentation].exists
    /\ disk[config.pathVerifiablePresentation].text.complete
    /\ Len(PersistedCredentials) = 7
    /\ Len(readLog) = 6
    /\ <<readLog[1].path, readLog[2].path, readLog[3].path, readLog[4].path>> = BasePaths
    /\ <<readLog[5].path, readLog[6].path>> = ResourcePaths
    /\ PersistedCredentials =
         << readLog[1].value, readLog[2].value, readLog[3].value, readLog[4].value,
            local.vcCompliance, readLog[5].value, readLog[6].value >>
    /\ \A i \in 1..6 : readLog[i].value = JSONparse(runStart[readLog[i].path].text).value

\* C1 witness: a final VP on disk whose base credentials were issued by a later build
\* than its resource credentials.
C1_Witness ==
  /\ VPWritten
  /\ pc = "done"
  /\ Len(PersistedCredentials) = 7
  /\ PersistedCredentials[1] = VC("Participant", 2)
  /\ PersistedCredentials[6] = VC("VirtualResource", 1)
  /\ PersistedCredentials[7] = VC("InstantiatedVirtualResource", 1)

\* C2: if the compliance request fails, the present-and-sign workflow aborts at
\* signCredentials: writeFile is never started, the file at the VP path and the six
\* credential files are as they were when the run started.
C2_ComplianceFailureWritesNothing ==
  ComplianceFailed =>
    /\ pc \in {"sign_catch", "aborted"}
    /\ pc = "aborted" => failedAt = "signCredentials"
    /\ ~Happened("start", "writeFile")
    /\ \A p \in Paths : disk[p] = runStart[p]

\* C2 witness: the workflow aborted on a compliance rejection, with the credentials of
\* a completed build on disk and no VP file.
C2_Witness ==
  /\ ComplianceFailed
  /\ pc = "aborted"
  /\ \A p \in CredentialPaths : disk[p].exists /\ disk[p].text.complete
  /\ ~disk[config.pathVerifiablePresentation].exists

\* C3: if any of the six reads fails (file missing or malformed), the present-and-sign
\* workflow aborts at that read with no POST issued and no VP file written.
C3_ReadFailureBeforeNetwork ==
  ReadFailed =>
    /\ pc = "aborted"
    /\ failedAt \in ReadSteps
    /\ posts = <<>>
    /\ answers = <<>>
    /\ pending = {}
    /\ ~Happened("start", "signCredentials")
    /\ ~Happened("start", "writeFile")
    /\ disk[config.pathVerifiablePresentation] = runStart[config.pathVerifiablePresentation]

\* C3 witness: the build crashed while writing the instantiated resource, and the
\* present-and-sign workflow aborts on the malformed file, its last read.
C3_Witness ==
  /\ ReadFailed
  /\ failedAt = "readIVR"
  /\ thrown.message = "SyntaxError"
  /\ Len(readLog) = 5

\* signCredentials has been entered in this run.
SignCalled == Happened("start", "signCredentials")

\* signCredentials has ended in this run, by returning or by throwing.
SignEnded == Happened("ok", "signCredentials") \/ Happened("fail", "signCredentials")

\* C4: an invocation of signCredentials issues exactly one POST, to the configured
\* compliance endpoint, whether the request succeeds or fails; nothing is sent again,
\* so a run of the present-and-sign workflow issues at most one POST.
C4_OnePostPerSign ==
  /\ Len(posts) <= 1
  /\ Len(answers) <= Len(posts)
  /\ \A i \in DOMAIN posts : posts[i].url = config.urlAPICompliance
  /\ SignCalled <=> Len(posts) = 1
  /\ SignEnded => Len(posts) = 1 /\ Len(answers) = 1 /\ "axios.post" \notin pending

\* C4 witness: the request failed, signCredentials threw, and one POST was issued.
C4_Witness ==
  /\ cmd = "vp"
  /\ Happened("fail", "signCredentials")
  /\ pc = "aborted"
  /\ Len(posts) = 1
  /\ answers[1].response = Undefined

\* The failure carries a response body: there is a response, and its body is not empty.
HasBody(err) ==
  IF err.response = Undefined THEN FALSE ELSE err.response.data \notin {Undefined, JSEmptyString}

\* C5: when the compliance request fails, signCredentials never returns a value; it
\* throws one error that carries the serialised response body when the failure has
\* one, and the serialised transport error otherwise.
C5_ErrorCarriesResponseBody ==
  (\E i \in DOMAIN answers : "response" \in DOMAIN answers[i]) =>
    /\ ~Happened("ok", "signCredentials")
    /\ pc \in {"sign_catch", "aborted"}
    /\ pc = "aborted" =>
         /\ thrown.name = "Error"
         /\ thrown.detail =
              JSONstringify(IF HasBody(answers[1]) THEN answers[1].response.data ELSE answers[1])

\* C6: actionCredentials starts its steps in the order Participant, LRN,
\* Terms&Conditions, Resource Translator, Service Offering; a step starts only right
\* after the step before it resolved, so the Service Offering builder starts only
\* after the Resource Translator has returned.
C6_BuildOrder ==
  cmd = "credentials" =>
    LET order == << "buildParticipantVC", "buildLegalRegistrationNumberVC",
                    "buildTermsConditionsVC", "buildOpenAPIResources",
                    "buildServiceOffering" >>
    IN  /\ Len(trace) <= 2 * Len(order)
        /\ \A i \in DOMAIN trace :
             IF i % 2 = 1
               THEN /\ trace[i] = Event("start", order[(i + 1) \div 2])
                    /\ i > 1 => trace[i - 1] = Event("ok", order[(i - 1) \div 2])
               ELSE /\ trace[i].ev \in {"ok", "fail"}
                    /\ trace[i].step = order[i \div 2]
        /\ Happened("start", "buildServiceOffering") =>
             Happened("ok", "buildOpenAPIResources")

\* C6 witness: a build workflow that ran all five steps.
C6_Witness ==
  /\ cmd = "credentials"
  /\ pc = "done"
  /\ Len(trace) = 10
  /\ trace[7] = Event("start", "buildOpenAPIResources")
  /\ trace[9] = Event("start", "buildServiceOffering")

\* C7: in either workflow a failed step is the last thing the workflow does: it
\* aborts with that step's error, nothing is outstanding, and what the earlier steps
\* of the run persisted, and what earlier runs left, is still on disk as written.
C7_AbortOnFirstFailure ==
  (cmd \in {"credentials", "vp"} /\ \E i \in DOMAIN trace : trace[i].ev = "fail") =>
    /\ trace[Len(trace)].ev = "fail"
    /\ \A i \in 1..(Len(trace) - 1) : trace[i].ev # "fail"
    /\ pc = "aborted"
    /\ pending = {}
    /\ failedAt = trace[Len(trace)].step
    /\ thrown # Undefined
    /\ cmd = "vp" => \A p \in CredentialPaths : disk[p] = runStart[p]
    /\ cmd = "credentials" =>
         \A s \in Range(CredSteps) :
           \A k \in DOMAIN BuilderPaths(s) :
             /\ Happened("ok", s) =>
                  disk[BuilderPaths(s)[k]] = FileOf(JSONstringify(BuilderDocs(s, runs)[k]))
             /\ ~Happened("start", s) =>
                  disk[BuilderPaths(s)[k]] = runStart[BuilderPaths(s)[k]]

\* C7 witness: the Service Offering builder failed in a second build; the resources
\* this run wrote are on disk, and so is the Service Offering of the first build.
C7_Witness ==
  /\ cmd = "credentials"
  /\ runs = 2
  /\ pc = "aborted"
  /\ failedAt = "buildServiceOffering"
  /\ disk[virtResourceWritePath] = FileOf(JSONstringify(VC("VirtualResource", 2)))
  /\ disk[config.pathServiceOffering] = FileOf(JSONstringify(ServiceOfferingVC(1, <<virtResourceUrl>>)))

\* C8: the presentation actionVP submits for signing holds exactly the four base
\* credentials this run read, [Participant, LRN, Terms&Conditions, ServiceOffering] in
\* that order; the two resource credentials are not in it.
C8_SubmittedBaseFour ==
  (cmd = "vp" /\ posts # <<>>) =>
    /\ Len(readLog) >= 6
    /\ <<readLog[1].path, readLog[2].path, readLog[3].path, readLog[4].path>> =
         << config.pathParticipant, config.pathLRN, config.pathTermsConditions,
            config.pathServiceOffering >>
    /\ \A i \in DOMAIN posts :
         /\ posts[i].body.type = "VerifiablePresentation"
         /\ posts[i].body.verifiableCredential =
              <<readLog[1].value, readLog[2].value, readLog[3].value, readLog[4].value>>
         /\ \A k \in DOMAIN posts[i].body.verifiableCredential :
              posts[i].body.verifiableCredential[k] \notin {readLog[5].value, readLog[6].value}

\* C8 witness: a presentation was submitted whose credentials come from two builds.
C8_Witness ==
  /\ cmd = "vp"
  /\ Len(posts) = 1
  /\ posts[1].body.verifiableCredential =
       << VC("Participant", 2), VC("LegalRegistrationNumber", 2),
          VC("TermsConditions", 1), ServiceOfferingVC(1, <<virtResourceUrl>>) >>

C10_ComplianceCredentialIsTheAnswer ==
  /\ Happened("ok", "signCredentials") =>
       /\ Len(posts) = 1
       /\ Len(answers) = 1
       /\ answers[1] \in ComplianceResponses
       /\ local.vcCompliance = answers[1].data
  /\ VPWritten => PersistedCredentials[5] = answers[1].data

\* C10 witness: the endpoint issued the second of its credentials, and the final VP
\* is on disk.
C10_Witness ==
  /\ VPWritten
  /\ answers = <<[status |-> 201, data |-> VC("Compliance", 2)]>>
  /\ PersistedCredentials[5] = VC("Compliance", 2)

\* C11: execution is strictly sequential: at every point of either workflow at most
\* one asynchronous operation (builder call, file read, file write, compliance POST)
\* is outstanding, it is the one the workflow is waiting at, and every operation
\* started has settled before the next one starts.
C11_StrictlySequential ==
  /\ Cardinality(pending) <= 1
  /\ pending \subseteq {IF pc = "signCredentials" THEN "axios.post" ELSE pc}
  /\ pc \in Halted => pending = {}
  /\ \A i \in DOMAIN trace :
       (trace[i].ev = "start" /\ i < Len(trace)) =>
         /\ trace[i + 1].ev \in {"ok", "fail"}
         /\ trace[i + 1].step = trace[i].step

\* C11 witness: the compliance POST is outstanding, alone, after the six reads.
C11_Witness ==
  /\ cmd = "vp"
  /\ pending = {"axios.post"}
  /\ Len(readLog) = 6
  /\ Len(trace) = 13

\* A document with its timestamp set aside.
Undated(doc) == [doc EXCEPT !.issuanceDate = 0]

Built(path, doc) == [path |-> path, doc |-> doc] \in produced

BuildCompleted == \E p \in produced : p.path = config.pathServiceOffering

\* C15: the two resource paths the present-and-sign workflow reads are the two write
\* paths the build workflow handed to the Resource Translator, in every run of either;
\* so once a build workflow has completed, both resource files exist, and no read of
\* a present-and-sign run fails on a missing resource file.
C15_ResourcePathsAgree ==
  /\ \A c \in calls :
       c.fn = "buildOpenAPIResources" =>
         /\ ReadPath("readVR") = c.args.virtResourceWritePath
         /\ ReadPath("readIVR") = c.args.instVirtResourceWritePath
         /\ cmd = "vp" =>
              /\ Len(readLog) >= 5 => readLog[5].path = c.args.virtResourceWritePath
              /\ Len(readLog) >= 6 => readLog[6].path = c.args.instVirtResourceWritePath
  /\ BuildCompleted =>
       /\ disk[ReadPath("readVR")].exists
       /\ disk[ReadPath("readIVR")].exists
       /\ (cmd = "vp" /\ failedAt \in {"readVR", "readIVR"}) => thrown.message # "ENOENT"

\* C15 witness: after a completed build, a present-and-sign run has read both resource
\* files.
C15_Witness ==
  /\ BuildCompleted
  /\ cmd = "vp"
  /\ runs = 2
  /\ Len(readLog) = 6
  /\ readLog[5] = [path |-> virtResourceWritePath, value |-> VC("VirtualResource", 1)]
  /\ readLog[6] =
       [path |-> instVirtResourceWritePath, value |-> VC("InstantiatedVirtualResource", 1)]

\* C16: whenever the build workflow calls the Service Offering builder, the
\* aggregated resource list it gives is the one-element list holding the Virtual
\* Resource URL, the URL the Resource Translator was given earlier in the run; the
\* list is never empty and never holds the Instantiated Virtual Resource URL, and the
\* Service Offering credentials persisted aggregate that one URL.
C16_AggregatesVirtualResourceOnly ==
  /\ \A c \in calls :
       (cmd = "credentials" /\ c.fn = "buildServiceOffering") =>
         /\ c.args.aggregatedResourceUrls # <<>>
         /\ Len(c.args.aggregatedResourceUrls) = 1
         /\ \E t \in calls : t.fn = "buildOpenAPIResources"
         /\ \A t \in calls :
              t.fn = "buildOpenAPIResources" =>
                /\ c.args.aggregatedResourceUrls[1] = t.args.virtResourceUrl
                /\ t.args.instVirtResourceUrl \notin Range(c.args.aggregatedResourceUrls)
  /\ \A p \in produced :
       (cmd \in {"credentials", "vp"} /\ p.doc.type = "ServiceOffering") =>
         p.doc.aggregationOf = <<virtResourceUrl>>

\* C16 witness: the Service Offering builder has been called, after the Resource
\* Translator returned, and is outstanding.
C16_Witness ==
  /\ cmd = "credentials"
  /\ pc = "buildServiceOffering"
  /\ pending = {"buildServiceOffering"}
  /\ Happened("ok", "buildOpenAPIResources")
  /\ \E c \in calls :
       c.fn = "buildServiceOffering" /\ c.args.aggregatedResourceUrls = <<virtResourceUrl>>

\* How many times step s was started in this run.
Started(s) == Cardinality({i \in DOMAIN trace : trace[i] = Event("start", s)})

\* C17: a run of the present-and-sign workflow writes no file but the one at the
\* configured VP path: every other file, the six credential files among them, is as
\* it was when the run started, whether the run succeeds or fails; writeFile is
\* started at most once, and only after all six reads and the compliance request
\* succeeded; before that the file at the VP path is untouched too.
C17_WritesOnlyTheVP ==
  cmd = "vp" =>
    /\ \A p \in Paths \ {config.pathVerifiablePresentation} : disk[p] = runStart[p]
    /\ \A p \in CredentialPaths : disk[p] = runStart[p]
    /\ Started("writeFile") <= 1
    /\ Happened("start", "writeFile") =>
         /\ Len(readLog) = 6
         /\ \A s \in ReadSteps : Happened("ok", s)
         /\ Happened("ok", "signCredentials")
         /\ local.vcCompliance # Undefined
    /\ ~Happened("start", "writeFile") =>
         disk[config.pathVerifiablePresentation] = runStart[config.pathVerifiablePresentation]

\* C17 witness: a second present-and-sign run replaced the presentation on disk, the
\* six credential files still as the build left them.
C17_Witness ==
  /\ cmd = "vp"
  /\ pc = "done"
  /\ runStart[config.pathVerifiablePresentation].exists
  /\ disk[config.pathVerifiablePresentation] # runStart[config.pathVerifiablePresentation]
  /\ \A p \in CredentialPaths : disk[p].exists /\ disk[p] = runStart[p]

\* A workflow is under way.
Running == pc \notin Halted

\* The compliance request has been sent and has not been answered.
ComplianceUnresolved == "axios.post" \in pending

\* C18: if every external operation eventually resolves or rejects, each workflow
\* that was started eventually terminates, completed or aborted; and while the
\* compliance request is unresolved the present-and-sign workflow has neither
\* assembled the final presentation nor started to write it, so the file at the VP
\* path is as it was when the run started.
C18_TerminatesAndBlocksOnCompliance ==
  /\ [](ComplianceUnresolved =>
          /\ pc = "signCredentials"
          /\ local.vpResult = Undefined
          /\ ~Happened("start", "writeFile")
          /\ disk[config.pathVerifiablePresentation] = runStart[config.pathVerifiablePresentation])
  /\ [](local.vpResult # Undefined => Happened("ok", "signCredentials"))
  /\ (Running ~> pc \in {"done", "aborted"})

\* C18 witness: the compliance request resolved, the presentation was assembled, and
\* the workflow terminated by aborting at its last step, the write.
C18_Witness ==
  /\ cmd = "vp"
  /\ pc = "aborted"
  /\ failedAt = "writeFile"
  /\ Happened("ok", "signCredentials")
  /\ local.vpResult # Undefined

====
